---- MODULE Spec2Model ----
(***************************************************************************)
(* A model of the NooBaaSource controller (src/src/manager.rs): the        *)
(* Manager bootstrap, the reconcile function with its suspension points,   *)
(* the error policy, the Shared State behind its reader/writer lock, the   *)
(* metrics, and the controller loop that dispatches reconciles; and of    *)
(* the poll thread of the legacy state module (src/src/state.rs).          *)
(***************************************************************************)
EXTENDS Integers, Sequences, FiniteSets, TLC

\* ------------------------------------------------------------------ bounds
\* reconciles the controller loop dispatches in all
MaxRuns == 3
\* longest spec name drawn for the classification check
MaxNameLen == 4
\* reconciles of one identity the loop's table could hold at once
MaxSlots == 2

\* polls the legacy poll thread makes at most
MaxPolls == 4

\* state.rs:77: Duration::from_secs(10)
SleepSecs == 10

\* instance identities (namespace, name) present in the cluster
Ids == {1, 2}
\* the controller loop's running reconciles, keyed by identity: there is no
\* parallelism cap across identities; slot <<i, k>> is the k-th reconcile of
\* i running at the same time
Tasks == Ids \X (1 .. MaxSlots)
\* the caller of Manager::state(), as a holder of the Shared State lock
Http == <<0, 0>>

\* ---------------------------------------------------------- spec names
\* the marker of manager.rs:136 and manager.rs:155
Marker == <<"b", "a", "d">>

Alphabet == {"b", "a", "d", "B"}

RECURSIVE NamesOfLen(_)
NamesOfLen(n) ==
    IF n = 0 THEN {<<>>}
    ELSE {Append(s, c) : s \in NamesOfLen(n - 1), c \in Alphabet}

NameBadSource1 == <<"b","a","d","-","s","o","u","r","c","e","-","1">>
NameGoodSource1 == <<"g","o","o","d","-","s","o","u","r","c","e","-","1">>
NameBadger == <<"b","a","d","g","e","r">>
NameCapBad == <<"B","a","d">>

\* every spec.name the classification is checked on
AllNames ==
    UNION {NamesOfLen(n) : n \in 0 .. MaxNameLen}
        \cup {NameBadSource1, NameGoodSource1, NameBadger, NameCapBad}

\* the spec.name values instances carry in the controller-loop model
InstanceNames == {NameBadger, NameCapBad}

\* str::starts_with, byte by byte
RECURSIVE StartsWith(_, _)
StartsWith(s, pat) ==
    IF pat = <<>> THEN TRUE
    ELSE IF s = <<>> THEN FALSE
    ELSE Head(s) = Head(pat) /\ StartsWith(Tail(s), Tail(pat))

\* a plausible slip: equality instead of substring search
Contains_Equality(s, pat) == s = pat

\* str::contains: the pattern matches at some offset of s (manager.rs:136,155)
RECURSIVE Contains(_, _)
Contains(s, pat) ==
    IF StartsWith(s, pat) THEN TRUE
    ELSE IF s = <<>> THEN FALSE
    ELSE Contains(Tail(s), pat)

\* NooBaaSourceStatus.is_bad as computed at manager.rs:136
StatusIsBad(name) == Contains(name, Marker)

\* a plausible slip: the event published for every instance
PublishCond_Always(name) == TRUE

\* the condition of the `if` at manager.rs:155
PublishCond(name) == Contains(name, Marker)

\* ------------------------------------------------------------ directives
\* a plausible slip: the retry delay depends on the error kind
error_policy_ByKind(error) == IF error = "patch" THEN 360 ELSE 3600 \div 2

\* error_policy: the requeue delay for a failed reconcile (manager.rs:186-191)
error_policy(error) == 360

\* the requeue delay of a successful reconcile (manager.rs:182-184)
SuccessRequeue == 3600 \div 2

\* ------------------------------------------------------------------ state
VARIABLES
    mgr,        \* Manager::new: position, list result, what it has created
    spec_name,  \* cluster: spec.name of each instance
    status,     \* cluster: the status sub-resource of each instance (Option)
    events,     \* cluster: events published, per involved instance
    sched,      \* controller loop: the pending request per instance (delay)
    started,    \* controller loop: reconciles dispatched per instance
    state,      \* Shared State: last_event, reporter
    lock,       \* the RwLock around Shared State: holders and FIFO waiters
    metrics,    \* handled_events counter, reconcile_duration observations
    clock,      \* Utc::now()
    task,       \* the reconcile running in each slot
    http,       \* the caller of Manager::state(): idle, or in its read
    legacy      \* state.rs: the process, its poll thread and the app

vars == <<mgr, spec_name, status, events, sched, started, state, lock,
          metrics, clock, task, http, legacy>>

Reporter == "noobaa-source-controller"

\* state.rs before init is called: no poll thread, nothing polled
LegacyStart ==
    [proc |-> "start", exit_status |-> <<>>, thread |-> "none",
     slept |-> 0, polls |-> 0, failed |-> 0, app |-> "idle"]

\* an empty reconcile slot
FreeTask ==
    [pc |-> "free", obj |-> 0, name |-> <<>>, now |-> 0,
     reporter |-> "", new_status |-> FALSE, wrote |-> FALSE,
     patched |-> FALSE, published |-> 0, observed |-> 0, counted |-> 0,
     result |-> "none", err |-> "none", requeue |-> 0]

\* State::new (manager.rs:225-230)
StateNew(now) == [last_event |-> now, reporter |-> Reporter]

\* Metrics::new (manager.rs:200-213)
MetricsNew == [handled_events |-> 0, reconcile_duration |-> 0]

Init ==
    /\ mgr = [pc |-> "init", list |-> "none", limit |-> 0,
              handle |-> FALSE, controller |-> FALSE]
    /\ spec_name \in [Ids -> InstanceNames]
    /\ status = [i \in Ids |-> <<>>]
    /\ events = [i \in Ids |-> 0]
    /\ sched = [i \in Ids |-> {}]
    /\ started = [i \in Ids |-> 0]
    /\ state = StateNew(0)
    /\ lock = [writers |-> {}, readers |-> {}, waitq |-> <<>>]
    /\ metrics = MetricsNew
    /\ clock = 1
    /\ task = [t \in Tasks |-> FreeTask]
    /\ http = "idle"
    /\ legacy = LegacyStart

\* ------------------------------------------------------------ Manager::new
\* a plausible slip: the list result dropped instead of expect()ed
AfterList_Ignore(res) ==
    [pc |-> "running", list |-> res, limit |-> 1,
     handle |-> TRUE, controller |-> TRUE]

\* manager.rs:258-270: expect() on the list result, then the controller
AfterList(res) ==
    IF res = "ok"
    THEN [pc |-> "running", list |-> res, limit |-> 1,
          handle |-> TRUE, controller |-> TRUE]
    ELSE [pc |-> "panicked", list |-> res, limit |-> 1,
          handle |-> FALSE, controller |-> FALSE]

\* Manager::new (manager.rs:246-271); the controller's watcher starts with a
\* list of every instance, which requests a reconcile of each
ManagerNew ==
    /\ mgr.pc = "init"
    /\ \E res \in {"ok", "err"} :
        /\ mgr' = AfterList(res)
        /\ sched' = IF mgr'.controller THEN [i \in Ids |-> {0}] ELSE sched
    /\ UNCHANGED <<spec_name, status, events, started, state, lock,
                   metrics, clock, task, http, legacy>>

\* ------------------------------------------------------- the RwLock
\* hands the lock to the waiters at the head of the queue, in FIFO order
RECURSIVE Grant(_, _, _)
Grant(q, ws, rs) ==
    IF q = <<>> THEN [writers |-> ws, readers |-> rs, waitq |-> q]
    ELSE IF Head(q).mode = "w"
    THEN IF ws = {} /\ rs = {}
         THEN [writers |-> {Head(q).who}, readers |-> rs, waitq |-> Tail(q)]
         ELSE [writers |-> ws, readers |-> rs, waitq |-> q]
    ELSE IF ws = {}
         THEN Grant(Tail(q), ws, rs \cup {Head(q).who})
         ELSE [writers |-> ws, readers |-> rs, waitq |-> q]

\* RwLock::write() / RwLock::read(): join the queue, take the lock if free
Request(who, mode) ==
    Grant(Append(lock.waitq, [who |-> who, mode |-> mode]),
          lock.writers, lock.readers)

\* dropping a guard
Release(who) == Grant(lock.waitq, lock.writers \ {who}, lock.readers \ {who})

\* ------------------------------------------------------- controller loop
\* a plausible slip: no per-identity slot check
SlotFree_Unchecked(i) == TRUE

\* the loop holds a request back while a reconcile of that identity runs
SlotFree(i) == \A t \in Tasks : task[t].obj # i

RECURSIVE SumOver(_, _)
SumOver(f, S) ==
    IF S = {} THEN 0
    ELSE LET x == CHOOSE y \in S : TRUE IN f[x] + SumOver(f, S \ {x})

\* reconciles dispatched so far; the model stops dispatching at MaxRuns
TotalStarted == SumOver(started, Ids)

\* the earlier of the scheduled request and a new one
Earlier(old, delay) ==
    IF old = {} THEN {delay}
    ELSE {CHOOSE d \in old \cup {delay} : \A e \in old \cup {delay} : d <= e}

\* a plausible slip: a notification for an instance in flight is dropped
Notify_DropInFlight(i) ==
    IF SlotFree(i) THEN [sched EXCEPT ![i] = {0}] ELSE sched

\* a change notification: the request for i becomes due now
Notify(i) == [sched EXCEPT ![i] = {0}]

\* the author changes an instance's spec; the watch delivers the change
WatchEvent(i) ==
    /\ mgr.controller
    /\ TotalStarted < MaxRuns
    /\ \E n \in InstanceNames : spec_name' = [spec_name EXCEPT ![i] = n]
    /\ sched' = Notify(i)
    /\ UNCHANGED <<mgr, status, events, started, state, lock, metrics, clock,
                   task, http, legacy>>

\* a scheduled requeue comes due
TimerFire(i) ==
    /\ mgr.controller
    /\ TotalStarted < MaxRuns
    /\ sched[i] # {} /\ sched[i] # {0}
    /\ sched' = Notify(i)
    /\ UNCHANGED <<mgr, spec_name, status, events, started, state, lock,
                   metrics, clock, task, http, legacy>>

\* the loop dispatches reconcile(i) with the current snapshot, and reconcile
\* runs to its first suspension point: manager.rs:119-125, where the value
\* Utc::now() is taken before the write lock is asked for
Start(i) ==
    /\ mgr.controller
    /\ sched[i] = {0}
    /\ SlotFree(i)
    /\ TotalStarted < MaxRuns
    /\ \E t \in Tasks :
        /\ t[1] = i
        /\ task[t].pc = "free"
        /\ \A u \in Tasks : (u[1] = i /\ task[u].pc = "free") => t[2] <= u[2]
        /\ task' = [task EXCEPT ![t] =
                      [FreeTask EXCEPT !.pc = "sampled", !.obj = i,
                                       !.name = spec_name[i],
                                       !.now = clock]]
    /\ clock' = clock + 1
    /\ sched' = [sched EXCEPT ![i] = {}]
    /\ started' = [started EXCEPT ![i] = @ + 1]
    /\ UNCHANGED <<mgr, spec_name, status, events, state, lock, metrics,
                   http, legacy>>

\* --------------------------------------------------------------- reconcile
\* manager.rs:125: state.write().await
RequestWrite(t) ==
    /\ task[t].pc = "sampled"
    /\ lock' = Request(t, "w")
    /\ task' = [task EXCEPT ![t].pc = "write"]
    /\ UNCHANGED <<mgr, spec_name, status, events, sched, started, state,
                   metrics, clock, http, legacy>>

\* a plausible slip: the guard released without storing the timestamp
WriteLastEvent_Skip(t) ==
    /\ task[t].pc = "write"
    /\ t \in lock.writers
    /\ lock' = Release(t)
    /\ task' = [task EXCEPT ![t].pc = "read_req"]
    /\ UNCHANGED <<mgr, spec_name, status, events, sched, started, state,
                   metrics, clock, http, legacy>>

\* a plausible slip: the write guard bound to a name, so that it is still
\* held when the read lock is asked for
WriteLastEvent_HoldGuard(t) ==
    /\ task[t].pc = "write"
    /\ t \in lock.writers
    /\ state' = [state EXCEPT !.last_event = task[t].now]
    /\ lock' = lock
    /\ task' = [task EXCEPT ![t].pc = "read_req", ![t].wrote = TRUE]
    /\ UNCHANGED <<mgr, spec_name, status, events, sched, started,
                   metrics, clock, http, legacy>>

\* manager.rs:125: last_event = <the sampled value>, and the guard dropped
WriteLastEvent(t) ==
    /\ task[t].pc = "write"
    /\ t \in lock.writers
    /\ state' = [state EXCEPT !.last_event = task[t].now]
    /\ lock' = Release(t)
    /\ task' = [task EXCEPT ![t].pc = "read_req", ![t].wrote = TRUE]
    /\ UNCHANGED <<mgr, spec_name, status, events, sched, started,
                   metrics, clock, http, legacy>>

\* manager.rs:126: state.read().await
RequestRead(t) ==
    /\ task[t].pc = "read_req"
    /\ lock' = Request(t, "r")
    /\ task' = [task EXCEPT ![t].pc = "read"]
    /\ UNCHANGED <<mgr, spec_name, status, events, sched, started, state,
                   metrics, clock, http, legacy>>

\* a plausible slip: a status merged with the one already stored, so that
\* an instance once marked bad stays bad
ReadReporter_Sticky(t) ==
    /\ task[t].pc = "read"
    /\ t \in lock.readers
    /\ lock' = Release(t)
    /\ task' = [task EXCEPT ![t].pc = "patch",
                            ![t].reporter = state.reporter,
                            ![t].new_status =
                                \/ StatusIsBad(task[t].name)
                                \/ status[task[t].obj] = <<TRUE>>]
    /\ UNCHANGED <<mgr, spec_name, status, events, sched, started, state,
                   metrics, clock, http, legacy>>

\* a plausible slip: the read guard kept in scope, so that it is still held
\* while the status patch is awaited
ReadReporter_KeepGuard(t) ==
    /\ task[t].pc = "read"
    /\ t \in lock.readers
    /\ lock' = lock
    /\ task' = [task EXCEPT ![t].pc = "patch",
                            ![t].reporter = state.reporter,
                            ![t].new_status = StatusIsBad(task[t].name)]
    /\ UNCHANGED <<mgr, spec_name, status, events, sched, started, state,
                   metrics, clock, http, legacy>>

\* manager.rs:126-151: reporter cloned, the guard dropped, the new status
\* computed and the status patch sent
ReadReporter(t) ==
    /\ task[t].pc = "read"
    /\ t \in lock.readers
    /\ lock' = Release(t)
    /\ task' = [task EXCEPT ![t].pc = "patch",
                            ![t].reporter = state.reporter,
                            ![t].new_status = StatusIsBad(task[t].name)]
    /\ UNCHANGED <<mgr, spec_name, status, events, sched, started, state,
                   metrics, clock, http, legacy>>

\* a plausible slip: the patch result logged and dropped, and reconcile
\* carried on to the event
PatchStatus_Swallow(t) ==
    /\ task[t].pc = "patch"
    /\ \E ok \in BOOLEAN :
        /\ status' = IF ok
                     THEN [status EXCEPT ![task[t].obj] =
                              <<task[t].new_status>>]
                     ELSE status
        /\ task' = [task EXCEPT
                      ![t].patched = ok,
                      ![t].pc = IF PublishCond(task[t].name)
                                THEN "publish" ELSE "metrics"]
    /\ UNCHANGED <<mgr, spec_name, events, sched, started, state, lock,
                   metrics, clock, http, legacy>>

\* a plausible slip: the patch addressed by name across all namespaces, so
\* that a namesake of the instance is patched with it
PatchStatus_Namesakes(t) ==
    /\ task[t].pc = "patch"
    /\ \E ok \in BOOLEAN :
        IF ok
        THEN /\ status' = [j \in Ids |-> <<task[t].new_status>>]
             /\ task' = [task EXCEPT
                           ![t].patched = TRUE,
                           ![t].pc = IF PublishCond(task[t].name)
                                     THEN "publish" ELSE "metrics"]
        ELSE /\ status' = status
             /\ task' = [task EXCEPT ![t].pc = "errored",
                                     ![t].result = "Err",
                                     ![t].err = "patch"]
    /\ UNCHANGED <<mgr, spec_name, events, sched, started, state, lock,
                   metrics, clock, http, legacy>>

\* manager.rs:149-155: the status patch returns
PatchStatus(t) ==
    /\ task[t].pc = "patch"
    /\ \E ok \in BOOLEAN :
        IF ok
        THEN /\ status' = [status EXCEPT ![task[t].obj] =
                              <<task[t].new_status>>]
             /\ task' = [task EXCEPT
                           ![t].patched = TRUE,
                           ![t].pc = IF PublishCond(task[t].name)
                                     THEN "publish" ELSE "metrics"]
        ELSE /\ status' = status
             /\ task' = [task EXCEPT ![t].pc = "errored",
                                     ![t].result = "Err",
                                     ![t].err = "patch"]
    /\ UNCHANGED <<mgr, spec_name, events, sched, started, state, lock,
                   metrics, clock, http, legacy>>

\* manager.rs:158-167: the event publish returns
Publish(t) ==
    /\ task[t].pc = "publish"
    /\ \E ok \in BOOLEAN :
        IF ok
        THEN /\ events' = [events EXCEPT ![task[t].obj] = @ + 1]
             /\ task' = [task EXCEPT ![t].pc = "metrics",
                                     ![t].published = @ + 1]
        ELSE /\ events' = events
             /\ task' = [task EXCEPT ![t].pc = "errored",
                                     ![t].result = "Err",
                                     ![t].err = "publish"]
    /\ UNCHANGED <<mgr, spec_name, status, sched, started, state, lock,
                   metrics, clock, http, legacy>>

\* a plausible slip: the observation made inside the "bad" branch only
Observe_OnlyBad(t) ==
    /\ task[t].pc = "metrics"
    /\ metrics' = IF task[t].published = 1
                  THEN [metrics EXCEPT !.reconcile_duration = @ + 1]
                  ELSE metrics
    /\ task' = [task EXCEPT ![t].pc = "inc", ![t].observed = @ + 1]
    /\ UNCHANGED <<mgr, spec_name, status, events, sched, started, state,
                   lock, clock, http, legacy>>

\* manager.rs:170-176: reconcile_duration.observe(duration)
Observe(t) ==
    /\ task[t].pc = "metrics"
    /\ metrics' = [metrics EXCEPT !.reconcile_duration = @ + 1]
    /\ task' = [task EXCEPT ![t].pc = "inc", ![t].observed = @ + 1]
    /\ UNCHANGED <<mgr, spec_name, status, events, sched, started, state,
                   lock, clock, http, legacy>>

\* manager.rs:178-184: handled_events.inc() and Ok(requeue after 30 minutes)
HandledInc(t) ==
    /\ task[t].pc = "inc"
    /\ metrics' = [metrics EXCEPT !.handled_events = @ + 1]
    /\ task' = [task EXCEPT ![t].pc = "done", ![t].counted = @ + 1,
                            ![t].result = "Ok",
                            ![t].requeue = SuccessRequeue]
    /\ UNCHANGED <<mgr, spec_name, status, events, sched, started, state,
                   lock, clock, http, legacy>>

\* a plausible slip: a retry delay that grows with the attempts made
ErrorPolicy_Backoff(t) ==
    /\ task[t].pc = "errored"
    /\ task' = [task EXCEPT ![t].pc = "done",
                            ![t].requeue =
                                error_policy(task[t].err)
                                    * started[task[t].obj]]
    /\ UNCHANGED <<mgr, spec_name, status, events, sched, started, state,
                   lock, metrics, clock, http, legacy>>

\* the loop hands an Err to error_policy (manager.rs:186-191, 265)
ErrorPolicy(t) ==
    /\ task[t].pc = "errored"
    /\ task' = [task EXCEPT ![t].pc = "done",
                            ![t].requeue = error_policy(task[t].err)]
    /\ UNCHANGED <<mgr, spec_name, status, events, sched, started, state,
                   lock, metrics, clock, http, legacy>>

\* a plausible slip: the result stream drained with a combinator that stops
\* at the first Err, which ends the controller loop
Finish_StopOnErr(t) ==
    /\ task[t].pc = "done"
    /\ sched' = [sched EXCEPT ![task[t].obj] = Earlier(@, task[t].requeue)]
    /\ task' = [task EXCEPT ![t] = FreeTask]
    /\ mgr' = IF task[t].result = "Err"
              THEN [mgr EXCEPT !.pc = "stopped", !.controller = FALSE]
              ELSE mgr
    /\ UNCHANGED <<spec_name, status, events, started, state, lock,
                   metrics, clock, http, legacy>>

\* a plausible slip: the directive of a failed reconcile dropped, so that a
\* failure is not retried
Finish_DropErr(t) ==
    /\ task[t].pc = "done"
    /\ sched' = IF task[t].result = "Err"
                THEN sched
                ELSE [sched EXCEPT ![task[t].obj] =
                         Earlier(@, task[t].requeue)]
    /\ task' = [task EXCEPT ![t] = FreeTask]
    /\ UNCHANGED <<mgr, spec_name, status, events, started, state, lock,
                   metrics, clock, http, legacy>>

\* the loop schedules the directive and frees the slot; the result is
\* drained (manager.rs:266-267)
Finish(t) ==
    /\ task[t].pc = "done"
    /\ sched' = [sched EXCEPT ![task[t].obj] = Earlier(@, task[t].requeue)]
    /\ task' = [task EXCEPT ![t] = FreeTask]
    /\ UNCHANGED <<mgr, spec_name, status, events, started, state, lock,
                   metrics, clock, http, legacy>>

\* ------------------------------------------------------- Manager::state
\* manager.rs:280: self.state.read().await
StateRequest ==
    /\ mgr.handle
    /\ http = "idle"
    /\ lock' = Request(Http, "r")
    /\ http' = "read"
    /\ UNCHANGED <<mgr, spec_name, status, events, sched, started, state,
                   metrics, clock, task, legacy>>

\* manager.rs:280: .clone() handed to the caller, and the guard dropped
StateRead ==
    /\ http = "read"
    /\ Http \in lock.readers
    /\ lock' = Release(Http)
    /\ http' = "idle"
    /\ UNCHANGED <<mgr, spec_name, status, events, sched, started, state,
                   metrics, clock, task, legacy>>

\* ------------------------------------------------- state.rs: the poll loop
\* state.rs:71-91 init: State::new panics without NAMESPACE (41), returns
\* the reflector's error (47, 73), and otherwise the poll thread is spawned
LegacyInit ==
    /\ legacy.proc = "start"
    /\ \E namespace \in BOOLEAN, reflector \in {"ok", "err"} :
        legacy' =
            IF ~namespace THEN [legacy EXCEPT !.proc = "panicked"]
            ELSE IF reflector = "err"
            THEN [legacy EXCEPT !.proc = "init_err"]
            ELSE [legacy EXCEPT !.proc = "running", !.thread = "sleep"]
    /\ UNCHANGED <<mgr, spec_name, status, events, sched, started, state,
                   lock, metrics, clock, task, http>>

\* state.rs:77: one second of std::thread::sleep goes by
SleepTick ==
    /\ legacy.proc = "running"
    /\ legacy.thread = "sleep"
    /\ legacy.slept < SleepSecs
    /\ legacy' = [legacy EXCEPT !.slept = @ + 1]
    /\ UNCHANGED <<mgr, spec_name, status, events, sched, started, state,
                   lock, metrics, clock, task, http>>

\* state.rs:77-80: the sleep is over and state2.poll() is called
Wake ==
    /\ legacy.proc = "running"
    /\ legacy.thread = "sleep"
    /\ legacy.slept = SleepSecs
    /\ legacy.polls < MaxPolls
    /\ legacy' = [legacy EXCEPT !.thread = "poll"]
    /\ UNCHANGED <<mgr, spec_name, status, events, sched, started, state,
                   lock, metrics, clock, task, http>>

\* a plausible slip: the failed poll logged and the loop carried on
PollReturns_LogOnly ==
    /\ legacy.proc = "running"
    /\ legacy.thread = "poll"
    /\ \E ok \in BOOLEAN :
        legacy' = [legacy EXCEPT !.thread = "sleep", !.slept = 0,
                                 !.polls = @ + 1,
                                 !.failed = IF ok THEN @ ELSE @ + 1]
    /\ UNCHANGED <<mgr, spec_name, status, events, sched, started, state,
                   lock, metrics, clock, task, http>>

\* state.rs:80-87: poll() returns: Ok goes round the loop, Err logs and
\* calls std::process::exit(1)
PollReturns ==
    /\ legacy.proc = "running"
    /\ legacy.thread = "poll"
    /\ \E ok \in BOOLEAN :
        legacy' =
            IF ok
            THEN [legacy EXCEPT !.thread = "sleep", !.slept = 0,
                                !.polls = @ + 1]
            ELSE [legacy EXCEPT !.thread = "none", !.polls = @ + 1,
                                !.failed = @ + 1,
                                !.proc = "exited", !.exit_status = <<1>>]
    /\ UNCHANGED <<mgr, spec_name, status, events, sched, started, state,
                   lock, metrics, clock, task, http>>

\* state.rs:62-64: the app reads the cache through State::foos
AppRead ==
    /\ legacy.proc = "running"
    /\ legacy.app = "idle"
    /\ legacy' = [legacy EXCEPT !.app = "reading"]
    /\ UNCHANGED <<mgr, spec_name, status, events, sched, started, state,
                   lock, metrics, clock, task, http>>

\* the app has its copy of the cache
AppDone ==
    /\ legacy.proc = "running"
    /\ legacy.app = "reading"
    /\ legacy' = [legacy EXCEPT !.app = "idle"]
    /\ UNCHANGED <<mgr, spec_name, status, events, sched, started, state,
                   lock, metrics, clock, task, http>>

\* the legacy state module on its own; the manager is not constructed
InitLegacy == Init /\ spec_name = [i \in Ids |-> NameCapBad]

NextLegacy ==
    \/ LegacyInit
    \/ SleepTick
    \/ Wake
    \/ PollReturns
    \/ AppRead
    \/ AppDone

LegacySpec == InitLegacy /\ [][NextLegacy]_vars

\* ------------------------------------------------------------------- spec
\* Manager::new and the controller loop it returns, driven to completion
NextLoop ==
    \/ ManagerNew
    \/ \E i \in Ids : WatchEvent(i)
    \/ \E i \in Ids : TimerFire(i)
    \/ \E i \in Ids : Start(i)
    \/ \E t \in Tasks : RequestWrite(t)
    \/ \E t \in Tasks : WriteLastEvent(t)
    \/ \E t \in Tasks : RequestRead(t)
    \/ \E t \in Tasks : ReadReporter(t)
    \/ \E t \in Tasks : PatchStatus(t)
    \/ \E t \in Tasks : Publish(t)
    \/ \E t \in Tasks : Observe(t)
    \/ \E t \in Tasks : HandledInc(t)
    \/ \E t \in Tasks : ErrorPolicy(t)
    \/ \E t \in Tasks : Finish(t)

\* the loop, and the hosting process calling Manager::state() at any time
Next ==
    \/ NextLoop
    \/ StateRequest
    \/ StateRead

Spec == Init /\ [][Next]_vars

\* what the controller loop does for identity i on its own: dispatch a due
\* request whose slot is free, hand an Err to error_policy, collect a
\* returned reconcile and schedule its directive
LoopStep(i) ==
    \/ Start(i)
    \/ \E t \in Tasks : t[1] = i /\ ErrorPolicy(t)
    \/ \E t \in Tasks : t[1] = i /\ Finish(t)

\* the controller loop with what the runtime guarantees of it: the loop's
\* task is polled whenever it has work, so its own steps for an identity
\* are not postponed forever. Nothing is assumed of the network or of the
\* author of the specs; nobody calls Manager::state()
FairSpec ==
    /\ Init
    /\ [][NextLoop]_vars
    /\ \A i \in Ids : WF_vars(LoopStep(i))

\* the loop while the author leaves every spec as it is: no watch event
NextQuiet ==
    \/ ManagerNew
    \/ \E i \in Ids : TimerFire(i)
    \/ \E i \in Ids : Start(i)
    \/ \E t \in Tasks : RequestWrite(t)
    \/ \E t \in Tasks : WriteLastEvent(t)
    \/ \E t \in Tasks : RequestRead(t)
    \/ \E t \in Tasks : ReadReporter(t)
    \/ \E t \in Tasks : PatchStatus(t)
    \/ \E t \in Tasks : Publish(t)
    \/ \E t \in Tasks : Observe(t)
    \/ \E t \in Tasks : HandledInc(t)
    \/ \E t \in Tasks : ErrorPolicy(t)
    \/ \E t \in Tasks : Finish(t)

\* the controller loop over specs that no longer change, with its own steps
\* weakly fair as in FairSpec and with timers that fire: a scheduled requeue
\* whose delay has run out is not held back forever. Nothing is assumed of
\* the network
RetrySpec ==
    /\ Init
    /\ [][NextQuiet]_vars
    /\ \A i \in Ids : WF_vars(LoopStep(i))
    /\ \A i \in Ids : WF_vars(TimerFire(i))

\* what a reconcile does between its network calls: the lock requests, the
\* sections under the lock, the metrics
LocalStep(t) ==
    \/ RequestWrite(t)
    \/ WriteLastEvent(t)
    \/ RequestRead(t)
    \/ ReadReporter(t)
    \/ Observe(t)
    \/ HandledInc(t)

\* the loop and the callers of Manager::state() over specs that no longer
\* change, when a call of instance 1 never returns: its status patch, or,
\* its status patch having succeeded, its event publish
NextHung ==
    \/ ManagerNew
    \/ \E i \in Ids : TimerFire(i)
    \/ \E i \in Ids : Start(i)
    \/ \E t \in Tasks : RequestWrite(t)
    \/ \E t \in Tasks : WriteLastEvent(t)
    \/ \E t \in Tasks : RequestRead(t)
    \/ \E t \in Tasks : ReadReporter(t)
    \/ \E t \in Tasks : t[1] # 1 /\ PatchStatus(t)
    \/ \E t \in Tasks :
          t[1] = 1 /\ PatchStatus(t) /\ task'[t].pc = "publish"
    \/ \E t \in Tasks : t[1] # 1 /\ Publish(t)
    \/ \E t \in Tasks : Observe(t)
    \/ \E t \in Tasks : HandledInc(t)
    \/ \E t \in Tasks : ErrorPolicy(t)
    \/ \E t \in Tasks : Finish(t)
    \/ StateRequest
    \/ StateRead

\* instance 1's calls hang; the executor polls every task that can run, so
\* the loop's steps and each reconcile's local steps are weakly fair, the
\* caller of Manager::state() drops its guard, and the calls of the other
\* instances return
HungSpec ==
    /\ Init
    /\ [][NextHung]_vars
    /\ \A i \in Ids : WF_vars(LoopStep(i))
    /\ \A t \in Tasks : WF_vars(LocalStep(t))
    /\ \A t \in Tasks : WF_vars(t[1] # 1 /\ PatchStatus(t))
    /\ \A t \in Tasks : WF_vars(t[1] # 1 /\ Publish(t))
    /\ WF_vars(StateRead)

\* the loop over specs that no longer change, and the hosting process
\* calling Manager::state() at any time
NextLock ==
    \/ NextQuiet
    \/ StateRequest
    \/ StateRead

\* whoever holds the lock runs its section and drops the guard: the
\* sections under the lock have no suspension point. Nothing is assumed of
\* the network, of the timers or of the dispatch
LockSpec ==
    /\ Init
    /\ [][NextLock]_vars
    /\ \A t \in Tasks : WF_vars(WriteLastEvent(t))
    /\ \A t \in Tasks : WF_vars(ReadReporter(t))
    /\ WF_vars(StateRead)

\* ------------------------------------------------ convergence, one instance
\* the controller starts on specs that no longer change; instance 1 carries
\* whatever status an earlier spec of it left in the cluster
InitConverge ==
    /\ mgr = [pc |-> "init", list |-> "none", limit |-> 0,
              handle |-> FALSE, controller |-> FALSE]
    /\ spec_name \in [Ids -> InstanceNames]
    /\ \E old \in {<<>>, <<TRUE>>, <<FALSE>>} :
        status = [i \in Ids |-> IF i = 1 THEN old ELSE <<>>]
    /\ events = [i \in Ids |-> 0]
    /\ sched = [i \in Ids |-> {}]
    /\ started = [i \in Ids |-> 0]
    /\ state = StateNew(0)
    /\ lock = [writers |-> {}, readers |-> {}, waitq |-> <<>>]
    /\ metrics = MetricsNew
    /\ clock = 1
    /\ task = [t \in Tasks |-> FreeTask]
    /\ http = "idle"
    /\ legacy = LegacyStart

\* the status patch returns, and fails only while the model can still
\* dispatch the retry: the failures are transient
PatchReturns(t) ==
    /\ PatchStatus(t)
    /\ task'[t].err = "patch" => TotalStarted < MaxRuns

\* the event publish returns, under the same assumption
PublishReturns(t) ==
    /\ Publish(t)
    /\ task'[t].err = "publish" => TotalStarted < MaxRuns

\* reconciles of instance 1 alone, its requeues included
NextConverge ==
    \/ ManagerNew
    \/ TimerFire(1)
    \/ Start(1)
    \/ \E t \in Tasks : RequestWrite(t)
    \/ \E t \in Tasks : WriteLastEvent(t)
    \/ \E t \in Tasks : RequestRead(t)
    \/ \E t \in Tasks : ReadReporter(t)
    \/ \E t \in Tasks : PatchReturns(t)
    \/ \E t \in Tasks : PublishReturns(t)
    \/ \E t \in Tasks : Observe(t)
    \/ \E t \in Tasks : HandledInc(t)
    \/ \E t \in Tasks : ErrorPolicy(t)
    \/ \E t \in Tasks : Finish(t)

\* the executor polls whatever can run, the timers fire, and every call to
\* the API server returns
ConvergeSpec ==
    /\ InitConverge
    /\ [][NextConverge]_vars
    /\ WF_vars(LoopStep(1))
    /\ WF_vars(TimerFire(1))
    /\ \A t \in Tasks : WF_vars(LocalStep(t))
    /\ \A t \in Tasks : WF_vars(PatchReturns(t))
    /\ \A t \in Tasks : WF_vars(PublishReturns(t))

\* ---------------------------------------------- classification, one name
\* one instance whose spec.name is any name up to MaxNameLen characters
InitClassify ==
    /\ mgr = [pc |-> "init", list |-> "none", limit |-> 0,
              handle |-> FALSE, controller |-> FALSE]
    /\ \E n \in AllNames :
        spec_name = [i \in Ids |-> IF i = 1 THEN n ELSE NameCapBad]
    /\ status = [i \in Ids |-> <<>>]
    /\ events = [i \in Ids |-> 0]
    /\ sched = [i \in Ids |-> {}]
    /\ started = [i \in Ids |-> 0]
    /\ state = StateNew(0)
    /\ lock = [writers |-> {}, readers |-> {}, waitq |-> <<>>]
    /\ metrics = MetricsNew
    /\ clock = 1
    /\ task = [t \in Tasks |-> FreeTask]
    /\ http = "idle"
    /\ legacy = LegacyStart

\* reconciles of that instance alone
NextClassify ==
    \/ ManagerNew
    \/ Start(1)
    \/ \E t \in Tasks : RequestWrite(t)
    \/ \E t \in Tasks : WriteLastEvent(t)
    \/ \E t \in Tasks : RequestRead(t)
    \/ \E t \in Tasks : ReadReporter(t)
    \/ \E t \in Tasks : PatchStatus(t)
    \/ \E t \in Tasks : Publish(t)
    \/ \E t \in Tasks : Observe(t)
    \/ \E t \in Tasks : HandledInc(t)
    \/ \E t \in Tasks : ErrorPolicy(t)
    \/ \E t \in Tasks : Finish(t)

ClassifySpec == InitClassify /\ [][NextClassify]_vars

\* ============================================================== properties
InFlight(t) == task[t].pc # "free"

\* reconcile has returned, and the loop has its directive
Returned(t) == task[t].pc = "done"

\* the status patch has been sent, or reconcile is already past it
AtOrPastPatch(t) ==
    task[t].pc \in {"patch", "publish", "metrics", "inc", "errored", "done"}

\* C1: a reconcile that returns success yields requeue-after 1800 s, one that
\* returns an error yields 360 s whatever the error, and the loop never
\* schedules any other delay.
C1_RequeueContract ==
    /\ \A t \in Tasks : Returned(t) =>
        /\ task[t].result \in {"Ok", "Err"}
        /\ task[t].result = "Ok" => task[t].requeue = 1800
        /\ task[t].result = "Err" => task[t].requeue = 360
    /\ \A i \in Ids : sched[i] \subseteq {0, 360, 1800}

\* a success and a publish failure have both returned
C1_Witness ==
    \E t, u \in Tasks :
        /\ Returned(t) /\ task[t].result = "Ok" /\ task[t].requeue = 1800
        /\ Returned(u) /\ task[u].err = "publish" /\ task[u].requeue = 360

\* C2: no two reconciles in flight are for the same instance identity.
C2_PerIdentitySerial ==
    \A t, u \in Tasks :
        (t # u /\ InFlight(t) /\ InFlight(u)) => task[t].obj # task[u].obj

\* reconciles of two identities in flight at once, one of them with another
\* notification already due
C2_Witness ==
    \E t, u \in Tasks :
        /\ t # u /\ task[t].pc = "patch" /\ task[u].pc = "patch"
        /\ sched[task[t].obj] = {0}

\* C3 as stated: a returned reconcile has published an event exactly when
\* the status it computed is is_bad = true.
C3_EventIffBad ==
    \A t \in Tasks :
        Returned(t) => (task[t].published = 1 <=> StatusIsBad(task[t].name))

\* C3 amended: a reconcile publishes at most one event and only when the
\* status it computed is is_bad = true and its status patch succeeded; one
\* that returns success has published exactly one event iff is_bad = true;
\* one that returns an error has published none.
C3_EventOnlyIfBad ==
    \A t \in Tasks :
        /\ task[t].published <= 1
        /\ task[t].published = 1 => (task[t].new_status /\ task[t].patched)
        /\ (Returned(t) /\ task[t].result = "Ok") =>
              (task[t].published = 1 <=> task[t].new_status)
        /\ (Returned(t) /\ task[t].result = "Err") => task[t].published = 0

\* a successful reconcile of a "bad" instance that has published its event
C3_Witness ==
    \E t \in Tasks :
        /\ Returned(t) /\ task[t].result = "Ok"
        /\ task[t].new_status /\ task[t].published = 1
        /\ events[task[t].obj] >= 1

\* C4 as stated: once every instance has been reconciled once and all of
\* those reconciles have completed, handled_events equals their number.
C4_CounterEqualsN ==
    ((\A i \in Ids : started[i] = 1) /\ (\A t \in Tasks : ~InFlight(t)))
        => metrics.handled_events = Cardinality(Ids)

\* C5 as stated: once the reconciles have completed, last_event is the
\* latest timestamp any of them took (each dispatch takes the clock's next
\* value, so the latest one taken is clock - 1).
C5_LastEventIsLatest ==
    (TotalStarted > 0 /\ \A t \in Tasks : ~InFlight(t))
        => state.last_event = clock - 1

\* a reconcile of i in flight whose snapshot is older than i's spec
StaleInFlight(i) ==
    \E t \in Tasks : task[t].obj = i /\ task[t].name # spec_name[i]

\* a reconcile of i has finished while another notification for i is due
DoneAndDue(i) ==
    /\ sched[i] = {0}
    /\ \E t \in Tasks : task[t].obj = i /\ Returned(t)

\* a reconcile of i has just been dispatched with i's current spec
FreshlyDispatched(i) ==
    \E t \in Tasks :
        task[t].obj = i /\ task[t].pc = "sampled"
            /\ task[t].name = spec_name[i]

\* C6: a change arriving while a reconcile of the instance is in flight stays
\* due, and once that reconcile has finished a further reconcile of the
\* instance is dispatched with the current snapshot (as long as the model
\* dispatches at all, that is below MaxRuns).
C6_NeverDropped ==
    /\ [](\A i \in Ids : StaleInFlight(i) => sched[i] = {0})
    /\ \A i \in Ids :
          DoneAndDue(i) ~> (FreshlyDispatched(i) \/ TotalStarted = MaxRuns)

\* a change has arrived during a reconcile that has now returned
C6_Witness ==
    \E i \in Ids : StaleInFlight(i) /\ DoneAndDue(i) /\ TotalStarted < MaxRuns

\* C7: when the list call fails, Manager::new returns no handle, creates no
\* controller loop, and no reconcile is ever requested or dispatched; the
\* list call asks for one item.
C7_StartupGate ==
    /\ mgr.list # "none" => mgr.limit = 1
    /\ mgr.list = "err" =>
        /\ ~mgr.handle /\ ~mgr.controller
        /\ \A i \in Ids : sched[i] = {} /\ started[i] = 0
        /\ \A t \in Tasks : ~InFlight(t)
        /\ http = "idle"

\* the list call has failed
C7_Witness == mgr.list = "err" /\ mgr.pc = "panicked"

\* C8 as stated: every reconcile that has returned, with success or with an
\* error, has recorded one observation and incremented the counter once.
C8_MetricsAlways ==
    \A t \in Tasks :
        Returned(t) => (task[t].observed = 1 /\ task[t].counted = 1)

\* C9: a reconcile that has sent its status patch, and so any reconcile that
\* failed, has already stored its timestamp in last_event.
C9_StateBeforeFailure ==
    \A t \in Tasks :
        AtOrPastPatch(t) =>
            /\ task[t].wrote
            /\ state.last_event \in 1 .. (clock - 1)

\* a reconcile whose status patch has failed
C9_Witness ==
    \E t \in Tasks :
        task[t].pc = "errored" /\ task[t].err = "patch" /\ task[t].wrote

\* "bad" occurs in name at some offset, written out position by position
HasBadAt(name, k) ==
    /\ k + 2 <= Len(name)
    /\ name[k] = "b" /\ name[k + 1] = "a" /\ name[k + 2] = "d"

\* C10: the computed is_bad is true iff spec.name has "bad" at some offset
\* (case-sensitive); the four named examples classify as stated; the event
\* is attempted under the same condition as the one written to status.
C10_MarkerRule ==
    \A t \in Tasks :
        AtOrPastPatch(t) =>
            /\ task[t].new_status
                  <=> (\E k \in 1 .. Len(task[t].name) : HasBadAt(task[t].name, k))
            /\ task[t].name \in {NameBadSource1, NameBadger} => task[t].new_status
            /\ task[t].name \in {NameGoodSource1, NameCapBad} => ~task[t].new_status
            /\ task[t].pc = "publish" => task[t].new_status
            /\ (task[t].pc = "metrics" /\ task[t].published = 0)
                  => ~task[t].new_status
            /\ task[t].patched =>
                  status[task[t].obj] = <<task[t].new_status>>

\* "badger" classified bad, its status written and its event being published
C10_Witness ==
    \E t \in Tasks :
        /\ task[t].name = NameBadger /\ task[t].pc = "publish"
        /\ status[task[t].obj] = <<TRUE>>

\* what the marker rule gives for a name, position by position
NameHasBad(name) == \E k \in 1 .. Len(name) : HasBadAt(name, k)

\* C11: the status a reconcile has written is a function of the name in its
\* snapshot alone, whatever was stored before and whatever the shared state
\* and the metrics hold; and a successful patch onto a status that a
\* reconcile of the same name has written leaves the stored status as it is.
C11_Deterministic ==
    /\ [](\A t \in Tasks :
            task[t].patched =>
                status[task[t].obj] = <<NameHasBad(task[t].name)>>)
    /\ [][\A t \in Tasks :
            (/\ task[t].pc = "patch"
             /\ task'[t].patched
             /\ status[task[t].obj] = <<NameHasBad(task[t].name)>>)
                => status' = status]_vars

\* an instance reconciled a second time with its current spec, patched
\* again, while other reconciles have moved last_event and the counter on
C11_Witness ==
    \E t \in Tasks :
        /\ InFlight(t)
        /\ started[task[t].obj] >= 2
        /\ task[t].patched
        /\ task[t].name = spec_name[task[t].obj]
        /\ status[task[t].obj] = <<TRUE>>
        /\ metrics.handled_events >= 1
        /\ state.last_event # task[t].now

\* C12: a reconcile's error ends at the loop: error_policy turns it into a
\* requeue directive, the result is drained, and the loop is there as
\* before; it never terminates once created, and while it dispatches at all
\* (below MaxRuns) it takes notifications for every instance and dispatches
\* whatever is due and not held back by a running reconcile.
C12_ErrorsStayInLoop ==
    /\ [][mgr.controller => mgr'.controller]_vars
    /\ [][\A t \in Tasks :
            (Returned(t) /\ task[t].result = "Err" /\ task'[t].pc = "free")
                => /\ mgr' = mgr
                   /\ task[t].requeue = 360
                   /\ sched'[task[t].obj] \in {{0}, {360}}]_vars
    /\ [](\A i \in Ids :
            (mgr.handle /\ TotalStarted < MaxRuns) =>
                /\ ENABLED WatchEvent(i)
                /\ (sched[i] = {0} /\ SlotFree(i)) => ENABLED Start(i))

\* an instance has failed and is waiting for its retry after having been
\* retried before, and a reconcile of another instance has just been
\* dispatched
C12_Witness ==
    \E i \in Ids, t \in Tasks :
        /\ sched[i] = {360} /\ started[i] >= 2
        /\ task[t].pc = "sampled" /\ task[t].obj # i
        /\ task[t].now = clock - 1

\* a reconcile of i has failed and has not been collected by the loop yet
FailedRun(i) ==
    \E t \in Tasks :
        task[t].obj = i /\ task[t].pc \in {"errored", "done"}
            /\ task[t].result = "Err"

\* a reconcile of i has just been dispatched
Dispatched(i) == \E t \in Tasks : task[t].obj = i /\ task[t].pc = "sampled"

\* C13: every failed reconcile of an instance is followed by another
\* reconcile of that instance (as long as the model dispatches at all, that
\* is below MaxRuns), however many have failed before; the retry is
\* scheduled 360 s after the failure whatever the number of attempts, and
\* never later.
C13_PerpetualRetry ==
    /\ [](\A t \in Tasks :
            (Returned(t) /\ task[t].result = "Err") => task[t].requeue = 360)
    /\ [][\A t \in Tasks :
            (Returned(t) /\ task[t].result = "Err" /\ task'[t].pc = "free")
                => sched'[task[t].obj] \in {{0}, {360}}]_vars
    /\ \A i \in Ids :
          FailedRun(i) ~> (Dispatched(i) \/ TotalStarted = MaxRuns)

\* the second reconcile of an instance has failed like the first and the
\* model can still dispatch
C13_Witness ==
    \E t \in Tasks :
        /\ Returned(t) /\ task[t].result = "Err"
        /\ started[task[t].obj] = 2 /\ status[task[t].obj] = <<>>
        /\ task[t].requeue = 360
        /\ TotalStarted < MaxRuns

\* t neither holds the lock around Shared State nor waits for it
OffLock(t) ==
    /\ t \notin lock.writers \cup lock.readers
    /\ \A k \in 1 .. Len(lock.waitq) : lock.waitq[k].who # t

\* C14: while the status patch or the event publish of instance 1 never
\* returns, its reconcile stays off the Shared State lock and no further
\* reconcile of instance 1 is dispatched; every due request of another
\* instance is dispatched (as long as the model dispatches at all, that is
\* below MaxRuns) and every reconcile of another instance in flight gets
\* the lock and returns.
C14_HungCallIsolated ==
    /\ [](\A t \in Tasks :
            task[t].pc \in {"patch", "publish"} => OffLock(t))
    /\ [](started[1] <= 1)
    /\ \A i \in Ids \ {1} :
          (sched[i] = {0} /\ SlotFree(i))
              ~> (Dispatched(i) \/ TotalStarted = MaxRuns)
    /\ \A t \in Tasks :
          (t[1] # 1 /\ InFlight(t)) ~> Returned(t)

\* instance 1 hangs in its event publish, and a reconcile of instance 2
\* dispatched after it has taken the lock and returned success
C14_Witness ==
    \E t, u \in Tasks :
        /\ task[t].obj = 1 /\ task[t].pc = "publish"
        /\ task[u].obj = 2 /\ Returned(u) /\ task[u].result = "Ok"
        /\ task[u].wrote /\ task[u].now > task[t].now

\* the reconciles and the caller of Manager::state()
LockUsers == Tasks \cup {Http}

\* u has asked for the lock and has not been granted it yet
Waiting(u) == \E k \in 1 .. Len(lock.waitq) : lock.waitq[k].who = u

\* u holds the lock
Holding(u) == u \in lock.writers \cup lock.readers

\* C15: the write lock is held only by a reconcile at its last_event update
\* and the read lock only by a reconcile at its reporter read or by a caller
\* of Manager::state(); a reconcile at any other point, in particular one
\* suspended in its status patch or event publish, is off the lock; while
\* anyone waits, some holder can run its section and release; and every
\* request for the lock is granted in the end.
C15_LockDiscipline ==
    /\ [](/\ \A t \in Tasks : t \in lock.writers => task[t].pc = "write"
          /\ \A t \in Tasks : t \in lock.readers => task[t].pc = "read"
          /\ Http \in lock.readers => http = "read"
          /\ Http \notin lock.writers
          /\ \A t \in Tasks :
                task[t].pc \notin {"write", "read"} => OffLock(t)
          /\ Cardinality(lock.writers) <= 1
          /\ lock.writers # {} => lock.readers = {}
          /\ lock.waitq # <<>> =>
                \/ \E t \in Tasks : ENABLED WriteLastEvent(t)
                \/ \E t \in Tasks : ENABLED ReadReporter(t)
                \/ ENABLED StateRead)
    /\ \A u \in LockUsers : Waiting(u) ~> Holding(u)

\* a reconcile holds the write lock while a caller of Manager::state() and
\* the write request of another reconcile wait behind it
C15_Witness ==
    /\ Len(lock.waitq) >= 2
    /\ lock.writers # {}
    /\ \E k \in 1 .. Len(lock.waitq) : lock.waitq[k].who = Http
    /\ \E k \in 1 .. Len(lock.waitq) : lock.waitq[k].mode = "w"

\* C16: a reconcile publishes, or tries to, only after its status patch has
\* succeeded; one whose patch failed has an error with that cause, has
\* published nothing and has left the stored status as it was; one whose
\* publish failed has an error with that cause while the status it applied
\* stays in place; neither returns success, and a success has no error.
C16_HardFailuresInOrder ==
    /\ [](\A t \in Tasks :
            /\ (task[t].pc = "publish" \/ task[t].published > 0)
                  => task[t].patched
            /\ task[t].err = "patch" =>
                  /\ task[t].result = "Err"
                  /\ ~task[t].patched /\ task[t].published = 0
            /\ task[t].err = "publish" =>
                  /\ task[t].result = "Err"
                  /\ task[t].patched /\ task[t].published = 0
                  /\ status[task[t].obj] = <<task[t].new_status>>
            /\ task[t].result = "Err" <=> task[t].err \in {"patch", "publish"}
            /\ task[t].result = "Ok" =>
                  /\ task[t].patched /\ task[t].err = "none"
                  /\ task[t].published = 1 <=> task[t].new_status)
    /\ [][\A t \in Tasks :
            (task[t].pc = "patch" /\ task'[t].err = "patch")
                => (status' = status /\ events' = events)]_vars
    /\ [][\A t \in Tasks :
            (task[t].pc = "publish" /\ task'[t].err = "publish")
                => (status' = status /\ events' = events)]_vars

\* one reconcile has failed in its status patch on an instance with no
\* status yet, another in its event publish with its status applied
C16_Witness ==
    \E t, u \in Tasks :
        /\ Returned(t) /\ task[t].err = "patch" /\ status[task[t].obj] = <<>>
        /\ Returned(u) /\ task[u].err = "publish"
        /\ status[task[u].obj] = <<TRUE>> /\ events[task[u].obj] = 0

\* the stored status of i is the classification of i's current spec name
Converged(i) == status[i] = <<NameHasBad(spec_name[i])>>

\* a reconcile of i has applied its status and failed in its event publish
PublishFailed(i) ==
    \E t \in Tasks :
        task[t].obj = i /\ task[t].err = "publish" /\ task[t].patched

\* C17: with specs that no longer change and calls whose failures are
\* transient, the stored status of the instance becomes the classification
\* of its spec name and stays so from then on, whatever status was stored
\* before; and after a reconcile that applied the status and failed to
\* publish, a retry leaves that status in place and the event is published.
C17_Converges ==
    /\ [][\A i \in Ids : Converged(i) => Converged(i)']_vars
    /\ mgr.controller ~> [](Converged(1))
    /\ PublishFailed(1) ~> (Converged(1) /\ events[1] >= 1)

\* instance 1 had the status of an earlier spec, its first reconcile failed
\* in the status patch, its second applied the status and failed in the
\* publish, and the third is about to publish
C17_Witness ==
    \E t \in Tasks :
        /\ task[t].obj = 1 /\ task[t].pc = "publish"
        /\ started[1] = 3 /\ events[1] = 0
        /\ Converged(1)

\* the poll thread exists and is in its loop
InPollLoop == legacy.thread \in {"sleep", "poll"}

\* C18: the poll thread polls only after a full sleep of 10 s; a successful
\* poll puts it back to sleep from zero; the first failed poll ends the
\* process with exit status 1, after which nothing runs and nothing is
\* polled; the loop is left in no other way, and while the process runs the
\* thread always has its next step (up to MaxPolls polls).
C18_LegacyPollLoop ==
    /\ [](/\ legacy.failed <= 1
          /\ legacy.failed = 1 <=> legacy.proc = "exited"
          /\ legacy.proc = "exited" <=> legacy.exit_status = <<1>>
          /\ legacy.exit_status \in {<<>>, <<1>>}
          /\ legacy.proc = "running" <=> InPollLoop
          /\ (legacy.proc = "running" /\ legacy.polls < MaxPolls) =>
                (ENABLED SleepTick \/ ENABLED Wake \/ ENABLED PollReturns))
    /\ [][legacy.proc = "exited" => legacy' = legacy]_vars
    /\ [][(legacy.thread = "sleep" /\ legacy'.thread = "poll")
            => legacy.slept = SleepSecs]_vars
    /\ [][(/\ legacy.thread = "poll" /\ legacy'.thread # "poll"
            /\ legacy'.failed = legacy.failed)
            => /\ legacy'.thread = "sleep" /\ legacy'.slept = 0
               /\ legacy'.polls = legacy.polls + 1]_vars
    /\ [][(InPollLoop /\ ~InPollLoop')
            => /\ legacy.thread = "poll"
               /\ legacy'.proc = "exited"
               /\ legacy'.failed = 1]_vars

\* two polls have succeeded and the third has failed: the process is gone
\* while the app was in a read
C18_Witness ==
    /\ legacy.proc = "exited" /\ legacy.exit_status = <<1>>
    /\ legacy.polls = 3 /\ legacy.failed = 1
    /\ legacy.app = "reading"

\* reconciles that have observed their duration and not yet incremented
\* the counter
BetweenMetrics == {t \in Tasks : task[t].pc = "inc"}

\* C19: handled_events never decreases and moves by one at a time, exactly
\* in the step in which a reconcile returns success, so that it counts the
\* successful returns; no reconcile observes or increments twice; and the
\* histogram holds one observation per increment plus one per reconcile
\* between the two, so that the two are equal whenever none is in between.
C19_MetricsConsistent ==
    /\ [](/\ metrics.reconcile_duration
                = metrics.handled_events + Cardinality(BetweenMetrics)
          /\ BetweenMetrics = {} =>
                metrics.reconcile_duration = metrics.handled_events
          /\ \A t \in Tasks :
                /\ task[t].observed <= 1 /\ task[t].counted <= 1
                /\ task[t].result = "Ok" <=> task[t].counted = 1)
    /\ [][/\ metrics'.handled_events >= metrics.handled_events
          /\ metrics'.handled_events <= metrics.handled_events + 1]_vars
    /\ [][metrics'.handled_events # metrics.handled_events
            <=> \E t \in Tasks :
                  task[t].result # "Ok" /\ task'[t].result = "Ok"]_vars

\* two reconciles have succeeded and been collected, one has failed and
\* waits for its retry, and nobody is between observation and increment
C19_Witness ==
    /\ metrics.handled_events = 2 /\ metrics.reconcile_duration = 2
    /\ \E i \in Ids : sched[i] = {360}
    /\ \A t \in Tasks : ~InFlight(t)

\* the instance the step of slot t belongs to
StepObj(t) == IF InFlight(t) THEN task[t].obj ELSE task'[t].obj

\* C20: a step of the reconcile of instance i changes no spec, no status
\* but i's and no event count but i's, and the reporter in Shared State is
\* the one State::new stored.
C20_Frame ==
    /\ [](state.reporter = Reporter)
    /\ [][\A t \in Tasks :
            task'[t] # task[t] =>
                /\ spec_name' = spec_name
                /\ state'.reporter = state.reporter
                /\ \A j \in Ids \ {StepObj(t)} :
                      status'[j] = status[j] /\ events'[j] = events[j]]_vars

\* a reconcile has patched its instance and published its event while the
\* other instance, dispatched as well, has neither status nor event
C20_Witness ==
    \E t \in Tasks, j \in Ids :
        /\ task[t].published = 1 /\ j # task[t].obj
        /\ status[task[t].obj] = <<TRUE>> /\ events[task[t].obj] = 1
        /\ started[j] = 1 /\ status[j] = <<>> /\ events[j] = 0

====
